---- MODULE Spec2Model ----
(***************************************************************************)
(* Vehicle parking application (src/app.py, src/backend/models.py).        *)
(*                                                                         *)
(* The state is the content of the SQLite database (users, parking_lots,   *)
(* parking_spots, reservations), the wall clock read by datetime.utcnow(), *)
(* the outcome of the last request, and the reserve requests in flight.    *)
(* Every POST handler that writes the database is one action (Spec: the    *)
(* requests run one after the other).  Under SpecConc two reserve requests *)
(* also run as two steps each, the query of the spot and the commit, so    *)
(* that they interleave.                                                   *)
(*                                                                         *)
(* Conventions.                                                            *)
(*  - A nullable column holds None (<<>>) or Some(v) (<<v>>).              *)
(*  - Time is counted in ticks of 60/TicksPerHour minutes; every reading   *)
(*    of the clock by a handler is followed by the clock advancing, so two *)
(*    readings never return the same instant.                              *)
(*  - Money is counted in hundredths (a price of 15.0 is 1500).            *)
(*  - Primary keys are assigned as SQLite assigns INTEGER PRIMARY KEY      *)
(*    rowids: one more than the largest key present.                       *)
(*  - A request "of customer c" is a request whose session names customer  *)
(*    c; the session outlives the removal of the account.                  *)
(***************************************************************************)
EXTENDS Integers, FiniteSets, Sequences, TLC

\* ---------------------------------------------------------------- bounds
MaxUsers == 2
MaxLots == 1
MaxSpots == 2
MaxRes == 2
MaxTime == 4
TicksPerHour == 2

UserIds == 1..MaxUsers
LotIds == 1..MaxLots
SpotIds == 1..MaxSpots
Procs == {1, 2}

\* Values the create/modify forms are filled with.  int() accepts a negative
\* max_spots and float() a negative price.
Capacities == (-1)..MaxSpots
Forms ==
  { [name |-> "North", price |-> 1500, address |-> "1 Main St", pincode |-> "110001"],
    [name |-> "South", price |-> -1000, address |-> "2 Side St", pincode |-> "110002"] }
PaymentModes == {"UPI", "Cash"}

None == <<>>
Some(v) == <<v>>
ExpectedEnds == {None, Some(1)}

VARIABLES users, lots, spots, reservations, now, last, inflight

vars == <<users, lots, spots, reservations, now, last, inflight>>
db == <<users, lots, spots, reservations>>

\* ---------------------------------------------------------------- helpers
Max(S) == CHOOSE x \in S : \A y \in S : y <= x
Min2(a, b) == IF a <= b THEN a ELSE b

\* The rowid SQLite gives the next inserted row of a table whose keys are S.
NextId(S) == IF S = {} THEN 1 ELSE Max(S) + 1

\* f without the keys in S / f with key k bound to v.
Drop(f, S) == [k \in (DOMAIN f) \ S |-> f[k]]
Put(f, k, v) == [x \in (DOMAIN f) \cup {k} |-> IF x = k THEN v ELSE f[x]]

\* round(n / d, 0) as Python rounds: to nearest, ties to even (d > 0).
RoundDiv(n, d) ==
  LET q == n \div d
      r == n % d
  IN  IF 2 * r < d THEN q
      ELSE IF 2 * r > d THEN q + 1
      ELSE IF q % 2 = 0 THEN q ELSE q + 1

Idle == [pc |-> "idle"]

\* What the last request was and how it was answered.
Response(op, outcome) == [op |-> op, outcome |-> outcome]

\* ---------------------------------------------------------------- queries
\* ParkingSpot.query.filter_by(lot_id=f, status=st)
SpotsOf(f, st) == {s \in DOMAIN spots : spots[s].lot_id = f /\ spots[s].status = st}
AllSpotsOf(f) == {s \in DOMAIN spots : spots[s].lot_id = f}
OccupiedCount(f) == Cardinality(SpotsOf(f, "O"))

\* ParkingSpot.reservations / User.reservations
ReservationsOfSpot(s) == {r \in DOMAIN reservations : reservations[r].spot_id = s}
ReservationsOfUser(c) == {r \in DOMAIN reservations : reservations[r].user_id = c}

\* Variant: the rows ordered by parking_timestamp ascending.
EarliestReservations(s) ==
  {r \in ReservationsOfSpot(s) :
     \A q \in ReservationsOfSpot(s) :
        reservations[r].parking_timestamp <= reservations[q].parking_timestamp}

\* Reservation.query.filter_by(spot_id=s).order_by(parking_timestamp.desc()).first():
\* the candidates for the first row (one, unless timestamps tie).
LatestReservations(s) ==
  {r \in ReservationsOfSpot(s) :
     \A q \in ReservationsOfSpot(s) :
        reservations[q].parking_timestamp <= reservations[r].parking_timestamp}

\* Deleting a spot makes the ORM set spot_id of its reservations to NULL
\* (ParkingSpot.reservations has no delete cascade); spot_id is NOT NULL, so
\* the flush raises IntegrityError when any of the spots has a reservation.
DeleteRaises(S) == \E s \in S : ReservationsOfSpot(s) # {}

\* n new Available spots of lot f, with the next n rowids.
NewSpots(f, n) ==
  LET base == IF DOMAIN spots = {} THEN 0 ELSE Max(DOMAIN spots)
  IN  [s \in (DOMAIN spots) \cup ((base + 1)..(base + n)) |->
         IF s \in DOMAIN spots THEN spots[s] ELSE [lot_id |-> f, status |-> "A"]]
SpotRoom(n) ==
  (IF DOMAIN spots = {} THEN 0 ELSE Max(DOMAIN spots)) + n <= MaxSpots

\* The shape of the tables (backend/models.py), of the clock and of the
\* record of the last answer.
TypeOK ==
  /\ users \subseteq UserIds
  /\ DOMAIN lots \subseteq LotIds
  /\ \A f \in DOMAIN lots :
       /\ \E form \in Forms :
            /\ lots[f].name = form.name /\ lots[f].price = form.price
            /\ lots[f].address = form.address /\ lots[f].pincode = form.pincode
       /\ lots[f].max_spots \in Capacities
  /\ DOMAIN spots \subseteq SpotIds
  /\ \A s \in DOMAIN spots :
       spots[s].lot_id \in DOMAIN lots /\ spots[s].status \in {"A", "O"}
  /\ \A r \in DOMAIN reservations :
       /\ r \in 1..MaxRes
       /\ reservations[r].spot_id \in DOMAIN spots
       /\ reservations[r].user_id \in UserIds
       /\ reservations[r].parking_timestamp \in 0..MaxTime
       /\ reservations[r].expected_end_time \in ExpectedEnds
       /\ reservations[r].leaving_timestamp \in {None} \cup {Some(x) : x \in 0..MaxTime}
       /\ reservations[r].payment_status \in {"Pending", "Paid"}
       /\ reservations[r].payment_mode \in {None} \cup {Some(m) : m \in PaymentModes}
       /\ reservations[r].status \in {"O", "A"}
  /\ now \in 0..MaxTime
  /\ last \in [op : STRING, outcome : STRING]
  /\ \A p \in Procs : inflight[p].pc \in {"idle", "read", "done"}

\* ---------------------------------------------------------------- Init
Init ==
  /\ users = {}
  /\ lots = [f \in {} |-> 0]
  /\ spots = [s \in {} |-> 0]
  /\ reservations = [r \in {} |-> 0]
  /\ now = 0
  /\ last = Response("none", "none")
  /\ inflight = [p \in Procs |-> Idle]

\* ---------------------------------------------------------------- actions
\* customer_registration (POST, all fields given, email not taken)
Register ==
  /\ NextId(users) <= MaxUsers
  /\ users' = users \cup {NextId(users)}
  /\ last' = Response("register", "ok")
  /\ UNCHANGED <<lots, spots, reservations, now, inflight>>

\* datetime.utcnow() passing while no request runs
Tick ==
  /\ now < MaxTime
  /\ now' = now + 1
  /\ UNCHANGED <<users, lots, spots, reservations, last, inflight>>

\* create_parking_facility (POST)
CreateFacility(form, cap) ==
  LET f == NextId(DOMAIN lots)
      n == IF cap > 0 THEN cap ELSE 0
  IN  /\ f <= MaxLots
      /\ SpotRoom(n)
      /\ lots' = Put(lots, f, [name |-> form.name, price |-> form.price,
                               address |-> form.address, pincode |-> form.pincode,
                               max_spots |-> cap])
      /\ spots' = NewSpots(f, n)
      /\ last' = Response("create", "ok")
      /\ UNCHANGED <<users, reservations, now, inflight>>

\* Variant: no check of the occupied spots, and a delete that cascades.
remove_parking_facility_unchecked(f) ==
  IF f \notin DOMAIN lots THEN
    /\ last' = Response("remove_facility", "not_found")
    /\ UNCHANGED <<lots, spots, reservations>>
  ELSE
    /\ lots' = Drop(lots, {f})
    /\ spots' = Drop(spots, AllSpotsOf(f))
    /\ reservations' = Drop(reservations,
                            {r \in DOMAIN reservations :
                               reservations[r].spot_id \in AllSpotsOf(f)})
    /\ last' = Response("remove_facility", "ok")

\* remove_parking_facility (POST)
remove_parking_facility(f) ==
  IF f \notin DOMAIN lots THEN
    /\ last' = Response("remove_facility", "not_found")
    /\ UNCHANGED <<lots, spots, reservations>>
  ELSE IF OccupiedCount(f) > 0 THEN
    /\ last' = Response("remove_facility", "blocked")
    /\ UNCHANGED <<lots, spots, reservations>>
  ELSE IF DeleteRaises(AllSpotsOf(f)) THEN
    \* IntegrityError at commit: the transaction is rolled back
    /\ last' = Response("remove_facility", "error")
    /\ UNCHANGED <<lots, spots, reservations>>
  ELSE
    /\ lots' = Drop(lots, {f})
    /\ spots' = Drop(spots, AllSpotsOf(f))
    /\ last' = Response("remove_facility", "ok")
    /\ UNCHANGED reservations

RemoveFacility(f) ==
  /\ remove_parking_facility(f)
  /\ UNCHANGED <<users, now, inflight>>

\* Variant: only the spots of the customer's Occupied bookings are marked
\* Available.
remove_customer_account_active_only(c) ==
  IF c \notin users THEN
    /\ last' = Response("remove_customer", "not_found")
    /\ UNCHANGED <<users, spots, reservations>>
  ELSE
    LET mine == ReservationsOfUser(c)
        touched == {reservations[r].spot_id :
                      r \in {q \in mine : reservations[q].status = "O"}}
    IN  /\ spots' = [s \in DOMAIN spots |->
                       IF s \in touched THEN [spots[s] EXCEPT !.status = "A"]
                       ELSE spots[s]]
        /\ reservations' = Drop(reservations, mine)
        /\ users' = users \ {c}
        /\ last' = Response("remove_customer", "ok")

\* Variant: every spot is marked Available, not only those of the bookings.
remove_customer_account_all_spots(c) ==
  IF c \notin users THEN
    /\ last' = Response("remove_customer", "not_found")
    /\ UNCHANGED <<users, spots, reservations>>
  ELSE
    /\ spots' = [s \in DOMAIN spots |-> [spots[s] EXCEPT !.status = "A"]]
    /\ reservations' = Drop(reservations, ReservationsOfUser(c))
    /\ users' = users \ {c}
    /\ last' = Response("remove_customer", "ok")

\* remove_customer_account (POST)
remove_customer_account(c) ==
  IF c \notin users THEN
    /\ last' = Response("remove_customer", "not_found")
    /\ UNCHANGED <<users, spots, reservations>>
  ELSE
    LET mine == ReservationsOfUser(c)
        touched == {reservations[r].spot_id : r \in mine} \cap DOMAIN spots
    IN  /\ spots' = [s \in DOMAIN spots |->
                       IF s \in touched THEN [spots[s] EXCEPT !.status = "A"]
                       ELSE spots[s]]
        /\ reservations' = Drop(reservations, mine)
        /\ users' = users \ {c}
        /\ last' = Response("remove_customer", "ok")

RemoveCustomer(c) ==
  /\ remove_customer_account(c)
  /\ UNCHANGED <<lots, now, inflight>>

\* modify_parking_facility (POST): the spots the capacity reduction selects,
\* filter_by(lot_id=f, status='A').limit(k).all() with no ORDER BY: any k of them.
SpotsToRemove(f, k) ==
  {S \in SUBSET SpotsOf(f, "A") : Cardinality(S) = Min2(k, Cardinality(SpotsOf(f, "A")))}

modify_parking_facility(f, form, cap) ==
  IF f \notin DOMAIN lots THEN
    /\ last' = Response("modify", "not_found")
    /\ UNCHANGED <<lots, spots>>
  ELSE
    LET diff == cap - lots[f].max_spots
        edited == Put(lots, f, [name |-> form.name, price |-> form.price,
                                address |-> form.address, pincode |-> form.pincode,
                                max_spots |-> cap])
    IN  IF diff > 0 THEN
          /\ SpotRoom(diff)
          /\ spots' = NewSpots(f, diff)
          /\ lots' = edited
          /\ last' = Response("modify", "ok")
        ELSE IF diff < 0 /\ cap < OccupiedCount(f) THEN
          \* early return: the edits of the session are never committed
          /\ last' = Response("modify", "below_occupied")
          /\ UNCHANGED <<lots, spots>>
        ELSE IF diff < 0 THEN
          \E S \in SpotsToRemove(f, -diff) :
            IF DeleteRaises(S) THEN
              /\ last' = Response("modify", "error")
              /\ UNCHANGED <<lots, spots>>
            ELSE
              /\ spots' = Drop(spots, S)
              /\ lots' = edited
              /\ last' = Response("modify", "ok")
        ELSE
          /\ lots' = edited
          /\ last' = Response("modify", "ok")
          /\ UNCHANGED spots

ModifyFacility(f, form, cap) ==
  /\ modify_parking_facility(f, form, cap)
  /\ UNCHANGED <<users, reservations, now, inflight>>

\* Variant: parking_cost is not given, so the column keeps its default, NULL.
NewReservationDefaultCost(c, s, exp, ts) ==
  [spot_id |-> s, user_id |-> c, parking_timestamp |-> ts,
   expected_end_time |-> exp, leaving_timestamp |-> None,
   parking_cost |-> None, payment_status |-> "Pending",
   payment_mode |-> None, status |-> "O"]

\* The row reserve_parking_spot inserts.
NewReservation(c, s, exp, ts) ==
  [spot_id |-> s, user_id |-> c, parking_timestamp |-> ts,
   expected_end_time |-> exp, leaving_timestamp |-> None,
   parking_cost |-> Some(0), payment_status |-> "Pending",
   payment_mode |-> None, status |-> "O"]

\* Lines 479-492: the reservation is added and the spot marked, in one commit.
ReserveWrite(c, s, exp, ts) ==
  /\ reservations' = Put(reservations, NextId(DOMAIN reservations),
                         NewReservation(c, s, exp, ts))
  /\ spots' = [spots EXCEPT ![s].status = "O"]

\* reserve_parking_spot (POST) of customer c, run without interruption.
\* .first() with no ORDER BY: any Available spot of the facility.
reserve_parking_spot(c, f, exp) ==
  IF SpotsOf(f, "A") = {} THEN
    /\ last' = Response("reserve", "no_spot")
    /\ UNCHANGED <<spots, reservations, now>>
  ELSE IF c \notin users THEN
    \* current_customer is None: AttributeError on current_customer.id
    /\ last' = Response("reserve", "error")
    /\ UNCHANGED <<spots, reservations, now>>
  ELSE
    /\ now < MaxTime
    /\ NextId(DOMAIN reservations) <= MaxRes
    /\ \E s \in SpotsOf(f, "A") : ReserveWrite(c, s, exp, now)
    /\ now' = now + 1
    /\ last' = Response("reserve", "ok")

Reserve(c, f, exp) ==
  /\ reserve_parking_spot(c, f, exp)
  /\ UNCHANGED <<users, lots, inflight>>

\* Variant: only the completed hours are charged.
TotalCostWholeHours(start, end, price) == ((end - start) \div TicksPerHour) * price

\* round(parking_duration * price, 2), in hundredths
TotalCost(start, end, price) == RoundDiv((end - start) * price, TicksPerHour)

\* Lines 513-526: what checkout writes to the reservation it selected.
Released(r, end, price, mode) ==
  [reservations[r] EXCEPT
     !.leaving_timestamp = Some(end),
     !.parking_cost = Some(TotalCost(reservations[r].parking_timestamp, end, price)),
     !.payment_status = "Paid",
     !.payment_mode = Some(mode),
     !.status = "A"]

\* checkout_parking_spot (POST) of customer c; the handler does not read who c is.
checkout_parking_spot(c, s, mode) ==
  IF s \notin DOMAIN spots THEN
    /\ last' = Response("checkout", "not_found")
    /\ UNCHANGED <<spots, reservations, now>>
  ELSE IF LatestReservations(s) = {} THEN
    \* active_reservation is None: AttributeError in either branch
    /\ last' = Response("checkout", "error")
    /\ UNCHANGED <<spots, reservations, now>>
  ELSE IF spots[s].status = "O" THEN
    /\ now < MaxTime
    /\ \E r \in LatestReservations(s) :
         reservations' = [reservations EXCEPT
                            ![r] = Released(r, now, lots[spots[s].lot_id].price, mode)]
    /\ spots' = [spots EXCEPT ![s].status = "A"]
    /\ now' = now + 1
    /\ last' = Response("checkout", "ok")
  ELSE
    \* falls through to render_template('release_confirm.html', ...)
    /\ last' = Response("checkout", "confirm_page")
    /\ UNCHANGED <<spots, reservations, now>>

Checkout(c, s, mode) ==
  /\ checkout_parking_spot(c, s, mode)
  /\ UNCHANGED <<users, lots, inflight>>

Next ==
  \/ Register
  \/ Tick
  \/ \E form \in Forms, cap \in Capacities : CreateFacility(form, cap)
  \/ \E f \in LotIds : RemoveFacility(f)
  \/ \E c \in UserIds : RemoveCustomer(c)
  \/ \E f \in LotIds, form \in Forms, cap \in Capacities : ModifyFacility(f, form, cap)
  \/ \E c \in UserIds, f \in LotIds, exp \in ExpectedEnds : Reserve(c, f, exp)
  \/ \E c \in UserIds, s \in SpotIds, mode \in PaymentModes : Checkout(c, s, mode)

Spec == Init /\ [][Next]_vars

\* ------------------------------------------------- two concurrent reserves
\* reserve_parking_spot run in two steps, the query of line 465 and the commit
\* of line 492 (the clock is read just before the commit).  Each of the two
\* requests is issued once; first tells whether the request queried the spots
\* before the other request started, avail how many Available spots the
\* facility had at that query.
AllIdle == \A p \in Procs : inflight[p].pc = "idle"

Answered(p, outcome, f, s, first, avail) ==
  [inflight EXCEPT ![p] = [pc |-> "done", outcome |-> outcome, lot |-> f,
                           spot |-> s, first |-> first, avail |-> avail]]

\* The query of an Available spot (line 465), for a request of an existing
\* customer.
ReserveRead(p, c, f) ==
  LET first == \A q \in Procs \ {p} : inflight[q].pc = "idle"
      avail == Cardinality(SpotsOf(f, "A"))
  IN  /\ inflight[p].pc = "idle"
      /\ c \in users
      /\ IF SpotsOf(f, "A") = {} THEN
           /\ inflight' = Answered(p, "no_spot", f, 0, first, avail)
           /\ last' = Response("reserve", "no_spot")
         ELSE
           /\ \E s \in SpotsOf(f, "A") :
                inflight' = [inflight EXCEPT ![p] =
                               [pc |-> "read", cust |-> c, lot |-> f, spot |-> s,
                                first |-> first, avail |-> avail]]
           /\ UNCHANGED last
      /\ UNCHANGED <<users, lots, spots, reservations, now>>

\* The rest of the handler (lines 471-494): the form is read, the clock is
\* read, the reservation and the spot are committed.
ReserveCommit(p, exp) ==
  LET req == inflight[p]
  IN  /\ req.pc = "read"
      /\ IF req.spot \notin DOMAIN spots THEN
           \* UPDATE parking_spots matches no row: StaleDataError, rolled back
           /\ inflight' = Answered(p, "error", req.lot, req.spot, req.first, req.avail)
           /\ last' = Response("reserve", "error")
           /\ UNCHANGED <<spots, reservations, now>>
         ELSE
           /\ now < MaxTime
           /\ NextId(DOMAIN reservations) <= MaxRes
           /\ ReserveWrite(req.cust, req.spot, exp, now)
           /\ now' = now + 1
           /\ inflight' = Answered(p, "ok", req.lot, req.spot, req.first, req.avail)
           /\ last' = Response("reserve", "ok")
      /\ UNCHANGED <<users, lots>>

\* The requests of Next run while no reserve request is between its two steps.
Sequential == AllIdle /\ Next

NextConc ==
  \/ Sequential
  \/ \E p \in Procs, c \in UserIds, f \in LotIds : ReserveRead(p, c, f)
  \/ \E p \in Procs, exp \in ExpectedEnds : ReserveCommit(p, exp)

SpecConc == Init /\ [][NextConc]_vars

\* ================================================================ claims
ActiveReservations(s) == {r \in ReservationsOfSpot(s) : reservations[r].status = "O"}

\* C1: every Occupied spot has exactly one Occupied reservation referencing it
\* and every Available spot has none.
SpotStatusMatchesReservations ==
  \A s \in DOMAIN spots :
    /\ spots[s].status = "O" => Cardinality(ActiveReservations(s)) = 1
    /\ spots[s].status = "A" => ActiveReservations(s) = {}

\* C2: of two concurrent reserve requests of existing customers for a facility
\* that had exactly one Available spot when the first of them queried it,
\* exactly one succeeds and the other is answered that no spot is available.
ConcurrentReserveOneWins ==
  \A p \in Procs, q \in Procs :
    ( /\ p # q
      /\ inflight[p].pc = "done" /\ inflight[q].pc = "done"
      /\ inflight[p].first /\ inflight[p].avail = 1
      /\ inflight[p].lot = inflight[q].lot )
    => \/ inflight[p].outcome = "ok" /\ inflight[q].outcome = "no_spot"
       \/ inflight[q].outcome = "ok" /\ inflight[p].outcome = "no_spot"

\* C3: a facility of capacity N >= 0 never has more than N Occupied spots.
OccupiedWithinCapacity ==
  \A f \in DOMAIN lots :
    lots[f].max_spots >= 0 => OccupiedCount(f) <= lots[f].max_spots

\* C4: no step deletes a spot row that is Occupied: every spot a step deletes
\* was Available and had no reservation, every Occupied spot and every
\* Occupied reservation is still there after a step that deletes spots, and a
\* facility is deleted only when none of its spots is Occupied.
OccupiedSpotsNeverDeleted ==
  [][ /\ \A s \in (DOMAIN spots) \ (DOMAIN spots') :
           /\ spots[s].status = "A"
           /\ ReservationsOfSpot(s) = {}
      /\ (DOMAIN spots) \ (DOMAIN spots') # {} =>
           /\ \A s \in DOMAIN spots :
                spots[s].status = "O" => s \in DOMAIN spots' /\ spots'[s] = spots[s]
           /\ reservations' = reservations
      /\ \A f \in (DOMAIN lots) \ (DOMAIN lots') : OccupiedCount(f) = 0
    ]_vars

\* C4 witness: a capacity reduction deleted spot 1 and left the Occupied spot 2.
ReducedAroundOccupiedSpot ==
  /\ last = Response("modify", "ok")
  /\ DOMAIN spots = {2}
  /\ spots[2].status = "O"
  /\ ActiveReservations(2) # {}

\* C5: a resize to a capacity (>= 0) below the number of Occupied spots is
\* answered as below occupancy and changes no facility row and no spot row.
ResizeBelowOccupancyRejected ==
  [][ \A f \in DOMAIN lots, form \in Forms, cap \in Capacities :
        (cap >= 0 /\ cap < OccupiedCount(f) /\ ModifyFacility(f, form, cap))
        => /\ last' = Response("modify", "below_occupied")
           /\ UNCHANGED <<lots, spots>>
    ]_vars

\* C6: removing a facility with no Occupied spot succeeds and removes the
\* facility and its spots; with an Occupied spot it is refused and changes
\* nothing.
DeleteFacilityDecidedByOccupancy ==
  [][ \A f \in DOMAIN lots :
        RemoveFacility(f) =>
          IF OccupiedCount(f) = 0
          THEN /\ last' = Response("remove_facility", "ok")
               /\ f \notin DOMAIN lots'
               /\ \A s \in AllSpotsOf(f) : s \notin DOMAIN spots'
          ELSE /\ last' = Response("remove_facility", "blocked")
               /\ UNCHANGED db
    ]_vars

\* C7: a checkout POST on an existing spot that is Available is answered with
\* a failure, not with a normal page, and changes no spot and no reservation.
ReleaseOfAvailableSpotFails ==
  [][ \A c \in UserIds, s \in DOMAIN spots, mode \in PaymentModes :
        (spots[s].status = "A" /\ Checkout(c, s, mode))
        => /\ last'.outcome \in {"error", "not_occupied"}
           /\ UNCHANGED <<spots, reservations>>
    ]_vars

\* Spot s is there before and after the step, with these statuses.
StatusChange(s, from, to) ==
  /\ s \in DOMAIN spots /\ s \in DOMAIN spots'
  /\ spots[s].status = from /\ spots'[s].status = to

ReleasedReservationNeverRewritten ==
  [][ \A r \in (DOMAIN reservations) \cap (DOMAIN reservations') :
        reservations[r].status = "A" =>
          /\ reservations'[r].parking_cost = reservations[r].parking_cost
          /\ reservations'[r].leaving_timestamp = reservations[r].leaving_timestamp
          /\ reservations'[r].payment_status = reservations[r].payment_status
          /\ reservations'[r].payment_mode = reservations[r].payment_mode
          /\ reservations'[r].status = "A"
    ]_vars

\* C9 witness: a spot with a Released reservation was reserved and checked out
\* again: it has two Released reservations, the later one just written.
SecondCheckoutOnSameSpot ==
  /\ last = Response("checkout", "ok")
  /\ \E r1 \in DOMAIN reservations, r2 \in DOMAIN reservations :
       /\ r1 # r2
       /\ reservations[r1].spot_id = reservations[r2].spot_id
       /\ reservations[r1].status = "A" /\ reservations[r2].status = "A"
       /\ reservations[r2].leaving_timestamp = Some(now - 1)
       /\ reservations[r1].leaving_timestamp # reservations[r2].leaving_timestamp

ReserveSucceeds(c, f) ==
  /\ last' = Response("reserve", "ok")
  /\ \/ \E exp \in ExpectedEnds : Reserve(c, f, exp)
     \/ \E p \in Procs, exp \in ExpectedEnds :
          /\ inflight[p].pc = "read"
          /\ inflight[p].cust = c /\ inflight[p].lot = f
          /\ ReserveCommit(p, exp)

\* C11: a successful reserve of customer c on facility f changes exactly one
\* spot of f from Available to Occupied and adds exactly one reservation,
\* Occupied, Pending, of that spot and of c; every other spot, every existing
\* reservation and every facility row is unchanged.
ReserveChangesOneSpotAddsOneReservation ==
  [][ \A c \in UserIds, f \in LotIds :
        ReserveSucceeds(c, f) =>
          \E s \in SpotsOf(f, "A") :
            /\ spots' = [spots EXCEPT ![s].status = "O"]
            /\ \E r \in (DOMAIN reservations') \ (DOMAIN reservations) :
                 /\ DOMAIN reservations' = (DOMAIN reservations) \cup {r}
                 /\ reservations'[r].status = "O"
                 /\ reservations'[r].payment_status = "Pending"
                 /\ reservations'[r].spot_id = s
                 /\ reservations'[r].user_id = c
            /\ \A q \in DOMAIN reservations : reservations'[q] = reservations[q]
            /\ lots' = lots
    ]_vars

\* C12: a successful checkout of an Occupied spot gives an Occupied reservation
\* of the spot the end time now, the cost nearest (to the hundredth) to the
\* elapsed hours times the hourly price of the facility, the payment status
\* Paid, the payment method of the form and the status Released, and makes the
\* spot Available; at capacity 1 and price 15.00, one and a half hours after
\* the reserve, the cost is 22.50.
ReleaseRecordsCostAndFreesSpot ==
  [][ \A c \in UserIds, s \in DOMAIN spots, mode \in PaymentModes :
        ( /\ spots[s].status = "O"
          /\ Checkout(c, s, mode)
          /\ last' = Response("checkout", "ok") )
        => /\ spots' = [spots EXCEPT ![s].status = "A"]
           /\ \E r \in ActiveReservations(s) :
                LET lot == lots[spots[s].lot_id]
                    due == (now - reservations[r].parking_timestamp) * lot.price
                    after == reservations'[r]
                IN  /\ after.leaving_timestamp = Some(now)
                    /\ after.parking_cost # None
                    /\ 2 * (after.parking_cost[1] * TicksPerHour - due) <= TicksPerHour
                    /\ 2 * (due - after.parking_cost[1] * TicksPerHour) <= TicksPerHour
                    /\ after.payment_status = "Paid"
                    /\ after.payment_mode = Some(mode)
                    /\ after.status = "A"
                    /\ ( /\ lot.max_spots = 1 /\ lot.price = 1500
                         /\ 2 * (now - reservations[r].parking_timestamp) = 3 * TicksPerHour )
                       => after.parking_cost = Some(2250)
    ]_vars

\* C12 witness: at a facility of capacity 1 and price 15.00, a checkout one
\* and a half hours after the reserve has just recorded the cost 22.50.
ReleasedAfterNinetyMinutes ==
  /\ last = Response("checkout", "ok")
  /\ \E r \in DOMAIN reservations :
       LET s == reservations[r].spot_id
       IN  /\ s \in DOMAIN spots /\ spots[s].status = "A"
           /\ lots[spots[s].lot_id].max_spots = 1
           /\ lots[spots[s].lot_id].price = 1500
           /\ reservations[r].status = "A"
           /\ reservations[r].payment_status = "Paid"
           /\ reservations[r].leaving_timestamp = Some(now - 1)
           /\ 2 * (now - 1 - reservations[r].parking_timestamp) = 3 * TicksPerHour
           /\ reservations[r].parking_cost = Some(2250)

\* C13: a checkout that directly follows a successful reserve, of the spot that
\* reserve took, succeeds and records a cost >= 0 on the reservation.
ReleaseRightAfterReserveCostsNonNegative ==
  [][ \A c \in UserIds, mode \in PaymentModes, r \in DOMAIN reservations :
        ( /\ last = Response("reserve", "ok")
          /\ reservations[r].parking_timestamp = now - 1
          /\ Checkout(c, reservations[r].spot_id, mode) )
        => /\ last' = Response("checkout", "ok")
           /\ reservations'[r].status = "A"
           /\ reservations'[r].parking_cost # None
           /\ reservations'[r].parking_cost[1] >= 0
    ]_vars

\* C14: a reserve request of a customer fails in two distinct ways and changes
\* no spot and no reservation: it is answered that no spot is available when
\* the facility exists and has no Available spot, and that the facility is
\* not found when no facility has the id.
ReserveFailuresDistinguished ==
  [][ \A c \in users, f \in LotIds, exp \in ExpectedEnds :
        (SpotsOf(f, "A") = {} /\ Reserve(c, f, exp))
        => /\ last' = IF f \in DOMAIN lots
                      THEN Response("reserve", "no_spot")
                      ELSE Response("reserve", "facility_not_found")
           /\ UNCHANGED <<spots, reservations>>
    ]_vars

\* C15: every facility has as many spot rows as its capacity (max_spots).
SpotRowsEqualCapacity ==
  \A f \in DOMAIN lots : Cardinality(AllSpotsOf(f)) = lots[f].max_spots

CheckoutOnlyByReservationOwner ==
  [][ \A c \in users, s \in DOMAIN spots, mode \in PaymentModes :
        ( /\ spots[s].status = "O"
          /\ ActiveReservations(s) # {}
          /\ \A r \in ActiveReservations(s) : reservations[r].user_id # c
          /\ Checkout(c, s, mode) )
        => UNCHANGED <<spots, reservations>>
    ]_vars
====
